---- MODULE Spec2Model ----
(***************************************************************************)
(* Jules monitoring bot: the /monitor command handler, the background      *)
(* monitoring_loop task, the session-state diffing it performs, the other  *)
(* command handlers and the JulesClient calls they rely on.                *)
(*                                                                         *)
(* The program runs on one asyncio event loop: the code between two awaits *)
(* runs without interleaving, so every action below is one such segment.   *)
(* A blocking JulesClient call runs in a worker thread                     *)
(* (asyncio.to_thread) and is a step of its own.                           *)
(*                                                                         *)
(* Three specifications: Spec is the monitoring with every list_sessions   *)
(* answer of the bounds; CommandsSpec is the whole bot, the other command  *)
(* handlers included, with few list_sessions answers; FairSpec is the      *)
(* monitoring under the fairness its scheduling gives, for termination.    *)
(***************************************************************************)
EXTENDS Integers, Sequences, FiniteSets, TLC

(***************************************************************************)
(* Bounds of the model.                                                    *)
(***************************************************************************)
MaxTasks == 2          \* monitoring_loop tasks created over the process lifetime
MaxSessions == 2       \* entries in one list_sessions answer
NumHandlers == 2       \* /monitor updates that may be in flight at once
TickSeconds == 1800    \* granularity of the clock
MaxNow == 5400         \* the clock stops advancing here

(***************************************************************************)
(* Program constants.                                                      *)
(***************************************************************************)
HourSeconds == 3600    \* timedelta(hours=1)
SleepSeconds == 60     \* asyncio.sleep(60)

None == "<None>"                    \* Python's None
EmptyDict == [k \in {} |-> "<None>"]  \* {} : a dict with no key
NoTask == 0                         \* None as the value of MONITORING_TASK_REF
\* A send_message text: its kind and, for an update digest, its entries.
NoMessage == [kind |-> "none", items |-> <<>>]
\* "Monitoring finished (1 hour completed)."
FinishedMessage == [kind |-> "finished", items |-> <<>>]
ADMIN_CHAT_ID == "123456"
OtherChat == "999"
Chats == {ADMIN_CHAT_ID, OtherChat}

Tasks == 1..MaxTasks
Handlers == 1..NumHandlers

CriticalStates == {"AWAITING_PLAN_APPROVAL", "AWAITING_USER_FEEDBACK"}

UnauthorizedText == "Unauthorized."
AlreadyActiveText == "Monitoring is already active."
StartedText == "Monitoring started. I will check for changes every minute for the next hour."
StoppedText == "Monitoring stopped."   \* the answer of a toggle that stops; not in bot.py

(***************************************************************************)
(* Inputs: the session dicts the remote API may put in an answer.  A dict  *)
(* is a function from its keys; a key may be missing.  Titles are left out *)
(* of the inputs, so every title is the default "No Title".                *)
(***************************************************************************)
\* An "id" that is a JSON array: SESSION_STATES.get(s_id) raises TypeError.
UnhashableId == "<a list>"

SessionDicts ==
    { [id |-> "1", state |-> s] :
        s \in {"RUNNING", "AWAITING_PLAN_APPROVAL", "AWAITING_USER_FEEDBACK"} }
    \cup { [id |-> "2", state |-> "AWAITING_PLAN_APPROVAL"] }
    \cup { [id |-> "1"],                                   \* no "state" key
           [state |-> "AWAITING_PLAN_APPROVAL"],           \* no "id" key
           [id |-> "", state |-> "AWAITING_USER_FEEDBACK"],   \* empty id
           [id |-> UnhashableId, state |-> "AWAITING_PLAN_APPROVAL"] }

RECURSIVE SeqsUpTo(_, _)
SeqsUpTo(S, n) ==
    IF n = 0 THEN { <<>> }
    ELSE LET shorter == SeqsUpTo(S, n - 1)
         IN  shorter \cup { Append(q, x) : q \in shorter, x \in S }

Polls == SeqsUpTo(SessionDicts, MaxSessions)

\* What the HTTP request of list_sessions can come to.
Responses ==
    { [kind |-> "error"] }
    \cup { [kind |-> "ok", body |-> EmptyDict] }
    \cup { [kind |-> "ok", body |-> [sessions |-> p]] : p \in Polls }

(***************************************************************************)
(* dict.get(key, default)                                                  *)
(***************************************************************************)
DictGet(d, k, default) == IF k \in DOMAIN d THEN d[k] ELSE default

\* d.setdefault(k, v): a key that is present keeps its value.
DictSetDefault(d, k, v) ==
    [x \in DOMAIN d \cup {k} |-> IF x \in DOMAIN d THEN d[x] ELSE v]

\* d = {k: v}: the other keys are dropped.
DictSetOnly(d, k, v) == [x \in {k} |-> v]

\* d[k] = v on a dict
DictSet(d, k, v) == [x \in DOMAIN d \cup {k} |-> IF x = k THEN v ELSE d[x]]

VARIABLES
    MONITORING_ACTIVE,     \* bot.py global
    MONITORING_TASK_REF,   \* bot.py global: the task last created, or None
    SESSION_STATES,        \* bot.py global: dict session id -> state
    now,                   \* datetime.now(), in seconds since process start
    pc,                    \* per monitoring_loop task: where it is
    end_time,              \* per task: local end_time
    wake_at,               \* per task: when its asyncio.sleep(60) may return
    data,                  \* per task: local data (result of list_sessions)
    fetch_failed,          \* per task: list_sessions took its except branch
    sessions,              \* per task: local sessions
    changes_detected,      \* per task: local changes_detected
    sending,               \* per task: text of the bot.send_message in flight
    finished_sent,         \* per task: calls of send_message(FinishedText)
    hpc,                   \* per cmd_monitor invocation: where it is
    last_answer,           \* text of the latest message.answer call of cmd_monitor
    handler,               \* the invocation of another command handler: where it
                           \* is, its session_id, its data, how its fetch ended
    answers                \* the message.answer calls of that invocation, in order

vars == << MONITORING_ACTIVE, MONITORING_TASK_REF, SESSION_STATES, now, pc,
           end_time, wake_at, data, fetch_failed, sessions, changes_detected,
           sending, finished_sent, hpc, last_answer, handler, answers >>

loopLocals == << data, fetch_failed, sessions, changes_detected >>

\* What the handlers other than cmd_monitor work on.
cmdVars == << handler, answers >>

\* list_sessions reporting a failed request as an entry of the list.
list_sessions_error_entry(resp) ==
    IF resp.kind = "ok"
    THEN resp.body
    ELSE [sessions |-> << [id |-> "1", state |-> "AWAITING_USER_FEEDBACK"] >>]

(***************************************************************************)
(* JulesClient.list_sessions: the answer's JSON, or {} when the request    *)
(* raised a RequestException.                                              *)
(***************************************************************************)
list_sessions(resp) == IF resp.kind = "ok" THEN resp.body ELSE EmptyDict

(***************************************************************************)
(* monitoring_loop, lines 238-265: the evaluation of the fetched sessions. *)
(***************************************************************************)
\* The text appended to changes_detected (line 262), as its three fields.
Notification(session) ==
    [ title |-> DictGet(session, "title", "No Title"),
      id    |-> session.id,
      state |-> DictGet(session, "state", "UNKNOWN") ]

\* Variants of should_notify a slip in lines 253-259 would give.
\* A first sight never notifies:
ShouldNotifyChangeOnly(previous_state, s_state) ==
    previous_state # None /\ s_state # previous_state

\* A change notifies only into a critical state:
ShouldNotifyCriticalOnly(previous_state, s_state) ==
    IF previous_state = None
    THEN s_state \in CriticalStates
    ELSE s_state # previous_state /\ s_state \in CriticalStates

\* A critical state notifies on every poll:
ShouldNotifyEveryCritical(previous_state, s_state) ==
    IF s_state \in CriticalStates
    THEN TRUE
    ELSE previous_state # None /\ s_state # previous_state

\* The critical set is consulted on every first sight but with one member:
ShouldNotifyOneCritical(previous_state, s_state) ==
    IF previous_state = None
    THEN s_state = "AWAITING_PLAN_APPROVAL"
    ELSE s_state # previous_state

\* Lines 249-259: should_notify for a session with a non-empty id.
ShouldNotify(previous_state, s_state) ==
    IF previous_state = None
    THEN s_state \in CriticalStates
    ELSE s_state # previous_state

\* The for body with line 265 moved under `if should_notify:`.
ProcessSessionRecordOnNotify(acc, session) ==
    LET s_id == DictGet(session, "id", None)
        s_state == DictGet(session, "state", "UNKNOWN")
    IN  IF s_id = None \/ s_id = ""
        THEN acc
        ELSE IF s_id = UnhashableId
        THEN [acc EXCEPT !.raised = TRUE]
        ELSE LET previous_state == DictGet(acc.states, s_id, None)
             IN  IF ShouldNotify(previous_state, s_state)
                 THEN [ states  |-> DictSet(acc.states, s_id, s_state),
                        changes |-> Append(acc.changes, Notification(session)),
                        raised  |-> FALSE ]
                 ELSE acc

\* The for body with line 265 as SESSION_STATES.setdefault(s_id, s_state).
ProcessSessionKeepFirst(acc, session) ==
    LET s_id == DictGet(session, "id", None)
        s_state == DictGet(session, "state", "UNKNOWN")
    IN  IF s_id = None \/ s_id = ""
        THEN acc
        ELSE IF s_id = UnhashableId
        THEN [acc EXCEPT !.raised = TRUE]
        ELSE LET previous_state == DictGet(acc.states, s_id, None)
             IN  [ states  |-> IF s_id \in DOMAIN acc.states
                               THEN acc.states
                               ELSE DictSet(acc.states, s_id, s_state),
                   changes |-> IF ShouldNotify(previous_state, s_state)
                               THEN Append(acc.changes, Notification(session))
                               ELSE acc.changes,
                   raised  |-> FALSE ]

\* The for body without line 265: nothing is recorded.
ProcessSessionNoRecord(acc, session) ==
    LET s_id == DictGet(session, "id", None)
        s_state == DictGet(session, "state", "UNKNOWN")
    IN  IF s_id = None \/ s_id = ""
        THEN acc
        ELSE IF s_id = UnhashableId
        THEN [acc EXCEPT !.raised = TRUE]
        ELSE LET previous_state == DictGet(acc.states, s_id, None)
             IN  [ states  |-> acc.states,
                   changes |-> IF ShouldNotify(previous_state, s_state)
                               THEN Append(acc.changes, Notification(session))
                               ELSE acc.changes,
                   raised  |-> FALSE ]

\* One pass of the for body (lines 239-265) on acc = [states, changes,
\* raised]; raised: the pass ended in an exception (line 249 on an id that
\* cannot be a dict key).
ProcessSession(acc, session) ==
    LET s_id == DictGet(session, "id", None)
        s_state == DictGet(session, "state", "UNKNOWN")
    IN  IF s_id = None \/ s_id = ""
        THEN acc
        ELSE IF s_id = UnhashableId
        THEN [acc EXCEPT !.raised = TRUE]
        ELSE LET previous_state == DictGet(acc.states, s_id, None)
             IN  [ states  |-> DictSet(acc.states, s_id, s_state),
                   changes |-> IF ShouldNotify(previous_state, s_state)
                               THEN Append(acc.changes, Notification(session))
                               ELSE acc.changes,
                   raised  |-> FALSE ]

\* The for loop (lines 236-265) over a list of sessions, from store `states`;
\* an exception ends it.
RECURSIVE RunCheckFrom(_, _)
RunCheckFrom(acc, ss) ==
    IF ss = <<>> \/ acc.raised THEN acc
    ELSE RunCheckFrom(ProcessSession(acc, Head(ss)), Tail(ss))

RunCheck(states, ss) ==
    RunCheckFrom([states |-> states, changes |-> <<>>, raised |-> FALSE], ss)

\* Line 269: the batched message: the "Updates:" header, then the entries.
UpdatesMessage(changes) == [kind |-> "updates", items |-> changes]

(***************************************************************************)
(* The command handlers other than cmd_monitor.  A str whose content is    *)
(* looked into (an identifier that may carry "sessions/", a repo argument  *)
(* that may hold "/") is the sequence of its pieces; an answer is its      *)
(* fixed text and the values formatted into it.  The activities text,      *)
(* which is cut by its length, is the very string.                         *)
(***************************************************************************)
Str(x) == << x >>
Pieces(s) == { s[i] : i \in 1..Len(s) }

Answer(text, args) == [text |-> text, args |-> args]

StartText == "Hello! I am the Jules Monitoring Bot."
CreateUsageText == "Usage: /create <owner/repo> <prompt>"
InvalidRepoText == "Invalid repo format. Use owner/repo (e.g., Montelibero/docker-helper)"
CreatingText == "Creating session..."
CreateFailedText == "Failed to create session. Check logs."
CreatedText == "Session Created!"
FetchingSessionsText == "Fetching sessions..."
NoSessionsText == "No sessions found."
RecentSessionsText == "Recent Sessions:"
FetchingInfoText == "Fetching info for session {session_id}..."
NotFoundText == "Session {session_id} not found or error occurred."
DetailsText == "ID: {clean_id} Title: {s_title} State: {s_state} URL: {s_url} Activities: /list_activities_{clean_id}"
InfoUsageText == "Usage: /info <session_id>"
FetchingActivitiesText == "Fetching activities for session {session_id}..."
NoActivitiesText == "No activities found."

\* Line 217: the length from which the activities text is cut.
TruncateAt == 4000

\* The length of the long activity type of ActivityResponses, and the number
\* of activities of its long list.
LongTypeChars == 4500
ManyActivities == 150

\* The bullet of line 214 (U+2022), one character.
Bullet == "*"

\* s repeated n times.
RECURSIVE Rep(_, _)
Rep(s, n) ==
    IF n = 0 THEN ""
    ELSE LET h == Rep(s, n \div 2)
         IN  h \o h \o (IF n % 2 = 1 THEN s ELSE "")

\* The str of a str kept as its pieces.
RECURSIVE Flat(_)
Flat(s) == IF s = <<>> THEN "" ELSE Head(s) \o Flat(Tail(s))

\* "\n".join(lines).
RECURSIVE JoinLines(_)
JoinLines(lines) ==
    IF lines = <<>> THEN ""
    ELSE IF Len(lines) = 1 THEN lines[1]
    ELSE LET half == Len(lines) \div 2
         IN  JoinLines(SubSeq(lines, 1, half)) \o "\n"
               \o JoinLines(SubSeq(lines, half + 1, Len(lines)))

\* aiogram's html.bold and html.code: the value between the tags.
html_bold(value) == "<b>" \o value \o "</b>"
html_code(value) == "<code>" \o value \o "</code>"

\* Line 210: f"Activities for {session_id}:".
ActivitiesText(session_id) == "Activities for " \o Flat(session_id) \o ":"

\* Line 214: f"\u2022 {html.code(a_type)} at {a_time}".
ActivityLine(a_type, a_time) == Bullet \o " " \o html_code(a_type) \o " at " \o a_time

\* A handler that is not running: no local is live.
IdleHandler == [pc |-> "idle", session_id |-> <<>>, data |-> EmptyDict, failed |-> FALSE]

\* message.text.split(maxsplit=2) of a /create message.
CreateArgs ==
    { << Str("/create") >>,
      << Str("/create"), Str("repo"), Str("prompt") >>,
      << Str("/create"), << "owner", "/", "repo" >>, Str("prompt") >> }

\* message.text.split(maxsplit=1) of an /info message.
InfoArgs ==
    { << Str("/info") >>,
      << Str("/info"), << "sessions/", "42" >> >>,
      << Str("/info"), << "42", " " >> >> }

\* The digits of a message matching ^/info_(\d+)$ or ^/list_activities_(\d+)$.
RegexIds == { Str("42") }

\* What the HTTP request of create_session can come to.
CreateResponses ==
    { [kind |-> "error"],
      [kind |-> "ok", body |-> [id |-> << "sessions/", "42" >>, state |-> Str("QUEUED")]] }

\* What the HTTP request of get_session can come to.
GetResponses ==
    { [kind |-> "error"],
      [kind |-> "ok", body |-> [title |-> Str("T")]],
      [kind |-> "ok", body |-> [id |-> Str("42")]],
      [kind |-> "ok", body |-> [id |-> << "sessions/", "42" >>, title |-> Str("T"),
                                state |-> Str("RUNNING"), url |-> Str("https://example.com")]] }

\* An activity type so long that its line alone exceeds the 4000 characters.
LongType == Rep("A", LongTypeChars)

\* What the HTTP request of list_activities can come to.
ActivityResponses ==
    { [kind |-> "error"],
      [kind |-> "ok", body |-> [activities |-> << [type |-> "COMMENT", createTime |-> "t"] >>]],
      [kind |-> "ok", body |-> [activities |-> << [type |-> LongType] >>]],
      [kind |-> "ok", body |-> [activities |-> << [type |-> "COMMENT", createTime |-> "t"],
                                                  [type |-> LongType] >>]],
      [kind |-> "ok", body |-> [activities |-> [i \in 1..ManyActivities |->
                                                  [type |-> "COMMENT", createTime |-> "t"]]]] }

\* The list_sessions answers used where the other handlers run as well.
FewResponses ==
    { [kind |-> "error"],
      [kind |-> "ok", body |-> EmptyDict],
      [kind |-> "ok", body |-> [sessions |-> <<>>]] }
    \cup { [kind |-> "ok", body |-> [sessions |-> << [id |-> "1", state |-> st] >>]] :
             st \in {"RUNNING", "AWAITING_PLAN_APPROVAL"} }

\* str.strip() on pieces: blank pieces at both ends are dropped.
RECURSIVE LStrip(_)
LStrip(s) == IF s # <<>> /\ Head(s) = " " THEN LStrip(Tail(s)) ELSE s

RECURSIVE RStrip(_)
RStrip(s) ==
    IF s # <<>> /\ s[Len(s)] = " " THEN RStrip(SubSeq(s, 1, Len(s) - 1)) ELSE s

Strip(s) == RStrip(LStrip(s))

\* s_id used as it came: no replace.
ReplaceNothing(s) == s

\* str.replace("sessions/", ""): every such piece is dropped.
RECURSIVE ReplaceSessions(_)
ReplaceSessions(s) ==
    IF s = <<>> THEN <<>>
    ELSE IF Head(s) = "sessions/"
    THEN ReplaceSessions(Tail(s))
    ELSE << Head(s) >> \o ReplaceSessions(Tail(s))

\* JulesClient.get_session, create_session, list_activities: the answer's
\* JSON, or {} when the request raised a RequestException.
get_session(resp) == IF resp.kind = "ok" THEN resp.body ELSE EmptyDict
create_session(resp) == IF resp.kind = "ok" THEN resp.body ELSE EmptyDict
list_activities(resp) == IF resp.kind = "ok" THEN resp.body ELSE EmptyDict

(***************************************************************************)
(* Initial state: the module globals of bot.py, no task, no handler.       *)
(***************************************************************************)
Init ==
    /\ MONITORING_ACTIVE = FALSE
    /\ MONITORING_TASK_REF = NoTask
    /\ SESSION_STATES = EmptyDict
    /\ now = 0
    /\ pc = [t \in Tasks |-> "unborn"]
    /\ end_time = [t \in Tasks |-> 0]
    /\ wake_at = [t \in Tasks |-> 0]
    /\ data = [t \in Tasks |-> EmptyDict]
    /\ fetch_failed = [t \in Tasks |-> FALSE]
    /\ sessions = [t \in Tasks |-> <<>>]
    /\ changes_detected = [t \in Tasks |-> <<>>]
    /\ sending = [t \in Tasks |-> NoMessage]
    /\ finished_sent = [t \in Tasks |-> 0]
    /\ hpc = [h \in Handlers |-> "idle"]
    /\ last_answer = None
    /\ handler = IdleHandler
    /\ answers = <<>>

\* A task is inside `while ...:` (fetching, evaluating, notifying or sleeping).
InLoop(t) == pc[t] \in {"fetch", "fetched", "send", "sleep"}

Unborn == { t \in Tasks : pc[t] = "unborn" }

(***************************************************************************)
(* cmd_monitor                                                             *)
(***************************************************************************)
\* Line 291 without its test: every /monitor of the operator starts a loop.
IsActiveNever == FALSE

\* Line 291: the test that guards the start of a second loop.
IsActive == MONITORING_ACTIVE

\* Lines 287-298: from the start of the handler to its first await.
CmdMonitor(h, chat) ==
    /\ hpc[h] = "idle"
    /\ IF chat # ADMIN_CHAT_ID
       THEN /\ last_answer' = UnauthorizedText
            /\ UNCHANGED << MONITORING_ACTIVE, hpc >>
       ELSE IF IsActive
       THEN /\ last_answer' = AlreadyActiveText
            /\ UNCHANGED << MONITORING_ACTIVE, hpc >>
       ELSE /\ Cardinality(Unborn) > Cardinality({ g \in Handlers : hpc[g] = "answering" })
            /\ MONITORING_ACTIVE' = TRUE
            /\ last_answer' = StartedText
            /\ hpc' = [hpc EXCEPT ![h] = "answering"]
    /\ UNCHANGED << MONITORING_TASK_REF, SESSION_STATES, now, pc, end_time,
                    wake_at, loopLocals, sending, finished_sent >>
    /\ UNCHANGED cmdVars

\* Line 301: the answer returned; the task is created and its handle recorded.
CmdMonitorCreateTask(h) ==
    /\ hpc[h] = "answering"
    /\ Unborn # {}
    /\ LET t == CHOOSE u \in Unborn : \A v \in Unborn : u <= v
       IN  /\ pc' = [pc EXCEPT ![t] = "created"]
           /\ MONITORING_TASK_REF' = t
    /\ hpc' = [hpc EXCEPT ![h] = "idle"]
    /\ UNCHANGED << MONITORING_ACTIVE, SESSION_STATES, now, end_time, wake_at,
                    loopLocals, sending, finished_sent, last_answer >>
    /\ UNCHANGED cmdVars

\* Lines 296-298: message.answer raised; the handler ends before line 301.
CmdMonitorAnswerFails(h) ==
    /\ hpc[h] = "answering"
    /\ hpc' = [hpc EXCEPT ![h] = "idle"]
    /\ UNCHANGED << MONITORING_ACTIVE, MONITORING_TASK_REF, SESSION_STATES, now,
                    pc, end_time, wake_at, loopLocals, sending, finished_sent, last_answer >>
    /\ UNCHANGED cmdVars

(***************************************************************************)
(* monitoring_loop                                                         *)
(***************************************************************************)
\* The loop exit without line 279: the flag is left set.
WhileCheckKeepsFlag(t, et) ==
    IF now < et /\ MONITORING_ACTIVE
    THEN /\ pc' = [pc EXCEPT ![t] = "fetch"]
         /\ UNCHANGED << MONITORING_ACTIVE, sending, finished_sent >>
    ELSE /\ pc' = [pc EXCEPT ![t] = "final_send"]
         /\ sending' = [sending EXCEPT ![t] = FinishedMessage]
         /\ finished_sent' = [finished_sent EXCEPT ![t] = @ + 1]
         /\ UNCHANGED MONITORING_ACTIVE

\* The loop condition without its deadline: `while MONITORING_ACTIVE:`.
WhileCheckNoDeadline(t, et) ==
    IF MONITORING_ACTIVE
    THEN /\ pc' = [pc EXCEPT ![t] = "fetch"]
         /\ UNCHANGED << MONITORING_ACTIVE, sending, finished_sent >>
    ELSE /\ pc' = [pc EXCEPT ![t] = "final_send"]
         /\ MONITORING_ACTIVE' = FALSE
         /\ sending' = [sending EXCEPT ![t] = FinishedMessage]
         /\ finished_sent' = [finished_sent EXCEPT ![t] = @ + 1]

\* Line 229 and what follows it up to the next await, with end_time `et`:
\* either the iteration starts and the fetch is handed to a worker thread
\* (line 233), or the loop is left, the flag cleared (line 279) and the
\* "finished" notice sent (line 280).
WhileCheck(t, et) ==
    IF now < et /\ MONITORING_ACTIVE
    THEN /\ pc' = [pc EXCEPT ![t] = "fetch"]
         /\ UNCHANGED << MONITORING_ACTIVE, sending, finished_sent >>
    ELSE /\ pc' = [pc EXCEPT ![t] = "final_send"]
         /\ MONITORING_ACTIVE' = FALSE
         /\ sending' = [sending EXCEPT ![t] = FinishedMessage]
         /\ finished_sent' = [finished_sent EXCEPT ![t] = @ + 1]

\* The task start with a store that begins empty for every run.
LoopStartResetsStore(t) ==
    /\ pc[t] = "created"
    /\ end_time' = [end_time EXCEPT ![t] = now + HourSeconds]
    /\ WhileCheck(t, now + HourSeconds)
    /\ SESSION_STATES' = EmptyDict
    /\ UNCHANGED << MONITORING_TASK_REF, now, wake_at, loopLocals, hpc, last_answer >>
    /\ UNCHANGED cmdVars

\* Lines 224-233: the task starts running.
LoopStart(t) ==
    /\ pc[t] = "created"
    /\ end_time' = [end_time EXCEPT ![t] = now + HourSeconds]
    /\ WhileCheck(t, now + HourSeconds)
    /\ UNCHANGED << MONITORING_TASK_REF, SESSION_STATES, now, wake_at, loopLocals,
                    hpc, last_answer >>
    /\ UNCHANGED cmdVars

\* Line 233, in the worker thread: jules_client.list_sessions(page_size=10).
ThreadListSessions(t, resp) ==
    /\ pc[t] = "fetch"
    /\ pc' = [pc EXCEPT ![t] = "fetched"]
    /\ data' = [data EXCEPT ![t] = list_sessions(resp)]
    /\ fetch_failed' = [fetch_failed EXCEPT ![t] = (resp.kind = "error")]
    /\ UNCHANGED << MONITORING_ACTIVE, MONITORING_TASK_REF, SESSION_STATES, now,
                    end_time, wake_at, sessions, changes_detected, sending,
                    finished_sent, hpc, last_answer >>
    /\ UNCHANGED cmdVars

\* Lines 233-276: the await of the fetch returns; the sessions are evaluated,
\* then either the batch is sent (line 270) or the sleep starts (line 276).
\* An exception in the evaluation is caught at line 272: what the for loop
\* had stored stays stored, what it had collected is not sent.
LoopEvaluate(t) ==
    /\ pc[t] = "fetched"
    /\ LET ss == DictGet(data[t], "sessions", <<>>)
           result == RunCheck(SESSION_STATES, ss)
       IN  /\ sessions' = [sessions EXCEPT ![t] = ss]
           /\ SESSION_STATES' = result.states
           /\ changes_detected' = [changes_detected EXCEPT ![t] = result.changes]
           /\ IF result.changes # <<>> /\ ~result.raised
              THEN /\ pc' = [pc EXCEPT ![t] = "send"]
                   /\ sending' = [sending EXCEPT ![t] = UpdatesMessage(result.changes)]
                   /\ UNCHANGED wake_at
              ELSE /\ pc' = [pc EXCEPT ![t] = "sleep"]
                   /\ wake_at' = [wake_at EXCEPT ![t] = now + SleepSeconds]
                   /\ UNCHANGED sending
    /\ data' = [data EXCEPT ![t] = EmptyDict]
    /\ UNCHANGED << MONITORING_ACTIVE, MONITORING_TASK_REF, now, end_time,
                    fetch_failed, finished_sent, hpc, last_answer >>
    /\ UNCHANGED cmdVars

\* The send without the except of line 272: a send that raises ends the task.
SendReturnUncaught(t, ok) ==
    /\ pc[t] = "send"
    /\ ok \in BOOLEAN
    /\ pc' = [pc EXCEPT ![t] = IF ok THEN "sleep" ELSE "done"]
    /\ sending' = [sending EXCEPT ![t] = NoMessage]
    /\ wake_at' = [wake_at EXCEPT ![t] = now + SleepSeconds]
    /\ UNCHANGED << MONITORING_ACTIVE, MONITORING_TASK_REF, SESSION_STATES, now,
                    end_time, loopLocals, finished_sent, hpc, last_answer >>
    /\ UNCHANGED cmdVars

\* Lines 270-276: bot.send_message returned or raised (caught at line 272);
\* either way the sleep starts.
SendReturn(t, ok) ==
    /\ pc[t] = "send"
    /\ ok \in BOOLEAN
    /\ pc' = [pc EXCEPT ![t] = "sleep"]
    /\ sending' = [sending EXCEPT ![t] = NoMessage]
    /\ wake_at' = [wake_at EXCEPT ![t] = now + SleepSeconds]
    /\ UNCHANGED << MONITORING_ACTIVE, MONITORING_TASK_REF, SESSION_STATES, now,
                    end_time, loopLocals, finished_sent, hpc, last_answer >>
    /\ UNCHANGED cmdVars

\* Lines 276, 229: the sleep is over; the loop condition is checked again.
\* The locals of the iteration that ended are not read again (the next
\* iteration assigns them before use): they are cleared here.
SleepReturn(t) ==
    /\ pc[t] = "sleep"
    /\ now >= wake_at[t]
    /\ WhileCheck(t, end_time[t])
    /\ fetch_failed' = [fetch_failed EXCEPT ![t] = FALSE]
    /\ sessions' = [sessions EXCEPT ![t] = <<>>]
    /\ changes_detected' = [changes_detected EXCEPT ![t] = <<>>]
    /\ UNCHANGED << MONITORING_TASK_REF, SESSION_STATES, now, end_time, wake_at,
                    data, hpc, last_answer >>
    /\ UNCHANGED cmdVars

\* Line 280: the final send_message returned or raised; the task is over.
FinalSendReturn(t, ok) ==
    /\ pc[t] = "final_send"
    /\ ok \in BOOLEAN
    /\ pc' = [pc EXCEPT ![t] = "done"]
    /\ sending' = [sending EXCEPT ![t] = NoMessage]
    /\ UNCHANGED << MONITORING_ACTIVE, MONITORING_TASK_REF, SESSION_STATES, now,
                    end_time, wake_at, loopLocals, finished_sent, hpc, last_answer >>
    /\ UNCHANGED cmdVars

\* Time passes.
Tick ==
    /\ now + TickSeconds <= MaxNow
    /\ now' = now + TickSeconds
    /\ UNCHANGED << MONITORING_ACTIVE, MONITORING_TASK_REF, SESSION_STATES, pc,
                    end_time, wake_at, loopLocals, sending, finished_sent, hpc, last_answer >>
    /\ UNCHANGED cmdVars

(***************************************************************************)
(* cmd_start, cmd_create, cmd_list, cmd_info, cmd_info_regex,              *)
(* cmd_activities_dynamic.  None of them reads or writes a global of the   *)
(* monitoring; one invocation at a time is followed.                       *)
(***************************************************************************)
monitorVars == << MONITORING_ACTIVE, MONITORING_TASK_REF, SESSION_STATES, now, pc,
                  end_time, wake_at, data, fetch_failed, sessions,
                  changes_detected, sending, finished_sent, hpc, last_answer >>

\* The test of the chat left out: every chat is served.
UnauthorizedNever(chat) == FALSE

\* Lines 58, 109, 162, 178, 192: str(message.chat.id) != str(ADMIN_CHAT_ID).
Unauthorized(chat) == chat # ADMIN_CHAT_ID

\* Lines 59-60 and their like: the answer of a handler that turns the chat away.
Reject ==
    /\ answers' = << Answer(UnauthorizedText, <<>>) >>
    /\ UNCHANGED handler

\* Lines 44-53: /start is answered from any chat.
CmdStart(chat) ==
    /\ handler.pc = "idle"
    /\ answers' = << Answer(StartText, <<>>) >>
    /\ UNCHANGED handler
    /\ UNCHANGED monitorVars

\* Lines 55-79: /create from its start to its first await.  An invocation
\* that is turned away or told its usage is over with that answer, whether
\* the answer returns or raises; one that is served is suspended at line 79.
CmdCreate(chat, args) ==
    /\ handler.pc = "idle"
    /\ IF Unauthorized(chat)
       THEN Reject
       ELSE IF Len(args) < 3
       THEN /\ answers' = << Answer(CreateUsageText, <<>>) >>
            /\ UNCHANGED handler
       ELSE IF "/" \notin Pieces(args[2])
       THEN /\ answers' = << Answer(InvalidRepoText, <<>>) >>
            /\ UNCHANGED handler
       ELSE /\ answers' = << Answer(CreatingText, <<>>) >>
            /\ handler' = [IdleHandler EXCEPT !.pc = "create_answer"]
    /\ UNCHANGED monitorVars

\* Lines 79-82: the first answer returned; create_session is handed to a
\* worker thread and the handler is suspended at line 82.
CmdCreateToThread ==
    /\ handler.pc = "create_answer"
    /\ handler' = [handler EXCEPT !.pc = "create_session"]
    /\ UNCHANGED answers
    /\ UNCHANGED monitorVars

\* Line 79: the first answer raised; the handler ends before line 82.
CmdCreateAnswerFails ==
    /\ handler.pc = "create_answer"
    /\ handler' = IdleHandler
    /\ UNCHANGED answers
    /\ UNCHANGED monitorVars

\* Lines 82-87, in the worker thread: jules_client.create_session(...) returns.
ThreadCreateSession(resp) ==
    /\ handler.pc = "create_session"
    /\ handler' = [handler EXCEPT !.pc = "created",
                                  !.data = create_session(resp),
                                  !.failed = (resp.kind = "error")]
    /\ UNCHANGED answers
    /\ UNCHANGED monitorVars

\* Lines 89-104: the answer of /create after the call.  It is the last
\* statement of the handler: the invocation is over whether it returns or raises.
CmdCreateAnswer ==
    /\ handler.pc = "created"
    /\ LET d == handler.data
           s_id == DictGet(d, "id", Str("Unknown ID"))
           s_url == DictGet(d, "url", << "https://jules.google.com/session/" >> \o s_id)
           s_state == DictGet(d, "state", Str("Unknown State"))
       IN  IF d = EmptyDict
           THEN answers' = Append(answers, Answer(CreateFailedText, <<>>))
           ELSE answers' = Append(answers, Answer(CreatedText, << s_id, s_url, s_state >>))
    /\ handler' = IdleHandler
    /\ UNCHANGED monitorVars

\* Lines 107-113: /list from its start to its first await.
CmdList(chat) ==
    /\ handler.pc = "idle"
    /\ IF Unauthorized(chat)
       THEN Reject
       ELSE /\ answers' = << Answer(FetchingSessionsText, <<>>) >>
            /\ handler' = [IdleHandler EXCEPT !.pc = "list_answer"]
    /\ UNCHANGED monitorVars

\* Lines 113-116: the first answer returned; list_sessions is handed to a
\* worker thread and the handler is suspended at line 116.
CmdListToThread ==
    /\ handler.pc = "list_answer"
    /\ handler' = [handler EXCEPT !.pc = "list_sessions"]
    /\ UNCHANGED answers
    /\ UNCHANGED monitorVars

\* Line 113: the first answer raised; the handler ends before line 116.
CmdListAnswerFails ==
    /\ handler.pc = "list_answer"
    /\ handler' = IdleHandler
    /\ UNCHANGED answers
    /\ UNCHANGED monitorVars

\* Line 116, in the worker thread: jules_client.list_sessions(page_size=10).
ThreadListSessionsForList(resp) ==
    /\ handler.pc = "list_sessions"
    /\ handler' = [handler EXCEPT !.pc = "listed",
                                  !.data = list_sessions(resp),
                                  !.failed = (resp.kind = "error")]
    /\ UNCHANGED answers
    /\ UNCHANGED monitorVars

\* Lines 117-130: the answer of /list after the call.
CmdListAnswer ==
    /\ handler.pc = "listed"
    /\ LET ss == DictGet(handler.data, "sessions", <<>>)
       IN  IF ss = <<>>
           THEN answers' = Append(answers, Answer(NoSessionsText, <<>>))
           ELSE answers' = Append(answers,
                    Answer(RecentSessionsText,
                           [i \in 1..Len(ss) |->
                               << DictGet(ss[i], "id", "Unknown ID"),
                                  DictGet(ss[i], "title", "No Title") >>]))
    /\ handler' = IdleHandler
    /\ UNCHANGED monitorVars

\* Lines 132-134: _send_session_info from its start to its first await.  Both
\* callers have answered nothing before the call: its answer is the first.
SendSessionInfo(session_id) ==
    /\ answers' = << Answer(FetchingInfoText, << session_id >>) >>
    /\ handler' = [IdleHandler EXCEPT !.pc = "info_answer", !.session_id = session_id]

\* Lines 134-136: the first answer returned; get_session is handed to a
\* worker thread and _send_session_info is suspended at line 136.
SendSessionInfoToThread ==
    /\ handler.pc = "info_answer"
    /\ handler' = [handler EXCEPT !.pc = "get_session"]
    /\ UNCHANGED answers
    /\ UNCHANGED monitorVars

\* Line 134: the first answer raised; _send_session_info and its caller end
\* before line 136.
SendSessionInfoAnswerFails ==
    /\ handler.pc = "info_answer"
    /\ handler' = IdleHandler
    /\ UNCHANGED answers
    /\ UNCHANGED monitorVars

\* Lines 159-172: /info <id>.
CmdInfo(chat, args) ==
    /\ handler.pc = "idle"
    /\ IF Unauthorized(chat)
       THEN Reject
       ELSE IF Len(args) < 2
       THEN /\ answers' = << Answer(InfoUsageText, <<>>) >>
            /\ UNCHANGED handler
       ELSE SendSessionInfo(Strip(args[2]))
    /\ UNCHANGED monitorVars

\* Lines 175-187: /info_<digits>.
CmdInfoRegex(chat, digits) ==
    /\ handler.pc = "idle"
    /\ IF Unauthorized(chat)
       THEN Reject
       ELSE SendSessionInfo(digits)
    /\ UNCHANGED monitorVars

\* Line 136, in the worker thread: jules_client.get_session(session_id).
ThreadGetSession(resp) ==
    /\ handler.pc = "get_session"
    /\ handler' = [handler EXCEPT !.pc = "got_session",
                                  !.data = get_session(resp),
                                  !.failed = (resp.kind = "error")]
    /\ UNCHANGED answers
    /\ UNCHANGED monitorVars

\* Lines 138-157: the second answer of _send_session_info.
SendSessionInfoAnswer ==
    /\ handler.pc = "got_session"
    /\ LET d == handler.data
       IN  IF d = EmptyDict \/ "id" \notin DOMAIN d
           THEN answers' = Append(answers, Answer(NotFoundText, << handler.session_id >>))
           ELSE LET s_id == DictGet(d, "id", Str("Unknown ID"))
                    s_title == DictGet(d, "title", Str("No Title"))
                    s_state == DictGet(d, "state", Str("Unknown State"))
                    clean_id == ReplaceSessions(s_id)
                    s_url == DictGet(d, "url",
                                     << "https://jules.google.com/session/" >> \o clean_id)
                IN  answers' = Append(answers,
                        Answer(DetailsText,
                               << clean_id, s_title, s_state, s_url, clean_id >>))
    /\ handler' = IdleHandler
    /\ UNCHANGED monitorVars

\* Lines 190-201: /list_activities_<digits> from its start to its first await.
CmdActivitiesDynamic(chat, digits) ==
    /\ handler.pc = "idle"
    /\ IF Unauthorized(chat)
       THEN Reject
       ELSE /\ answers' = << Answer(FetchingActivitiesText, << digits >>) >>
            /\ handler' = [IdleHandler EXCEPT !.pc = "activities_answer",
                                              !.session_id = digits]
    /\ UNCHANGED monitorVars

\* Lines 201-203: the first answer returned; list_activities is handed to a
\* worker thread and the handler is suspended at line 203.
CmdActivitiesToThread ==
    /\ handler.pc = "activities_answer"
    /\ handler' = [handler EXCEPT !.pc = "list_activities"]
    /\ UNCHANGED answers
    /\ UNCHANGED monitorVars

\* Line 201: the first answer raised; the handler ends before line 203.
CmdActivitiesAnswerFails ==
    /\ handler.pc = "activities_answer"
    /\ handler' = IdleHandler
    /\ UNCHANGED answers
    /\ UNCHANGED monitorVars

\* Line 203, in the worker thread: jules_client.list_activities(...).
ThreadListActivities(resp) ==
    /\ handler.pc = "list_activities"
    /\ handler' = [handler EXCEPT !.pc = "activities",
                                  !.data = list_activities(resp),
                                  !.failed = (resp.kind = "error")]
    /\ UNCHANGED answers
    /\ UNCHANGED monitorVars

\* Lines 204-220: the answer of /list_activities_<digits> after the call: the
\* header and one line for each activity, joined by newlines; a text of more
\* than 4000 characters is cut to its first 4000 characters, wherever that
\* falls, and "..." is put after them.  It is the last statement of the
\* handler: the invocation is over whether the answer returns or raises.
CmdActivitiesAnswer ==
    /\ handler.pc = "activities"
    /\ LET activities == DictGet(handler.data, "activities", <<>>)
           response_lines ==
               << html_bold(ActivitiesText(handler.session_id)) >>
               \o [i \in 1..Len(activities) |->
                      ActivityLine(DictGet(activities[i], "type", "Unknown"),
                                   DictGet(activities[i], "createTime", ""))]
           full_text == JoinLines(response_lines)
       IN  IF activities = <<>>
           THEN answers' = Append(answers, Answer(NoActivitiesText, <<>>))
           ELSE IF Len(full_text) > TruncateAt
           THEN answers' = Append(answers,
                    Answer(SubSeq(full_text, 1, TruncateAt) \o "...", <<>>))
           ELSE answers' = Append(answers, Answer(full_text, <<>>))
    /\ handler' = IdleHandler
    /\ UNCHANGED monitorVars

Next ==
    \/ \E h \in Handlers, chat \in Chats : CmdMonitor(h, chat)
    \/ \E h \in Handlers : CmdMonitorCreateTask(h)
    \/ \E h \in Handlers : CmdMonitorAnswerFails(h)
    \/ \E t \in Tasks : LoopStart(t)
    \/ \E t \in Tasks, resp \in Responses : ThreadListSessions(t, resp)
    \/ \E t \in Tasks : LoopEvaluate(t)
    \/ \E t \in Tasks, ok \in BOOLEAN : SendReturn(t, ok)
    \/ \E t \in Tasks : SleepReturn(t)
    \/ \E t \in Tasks, ok \in BOOLEAN : FinalSendReturn(t, ok)
    \/ Tick

Spec == Init /\ [][Next]_vars

(***************************************************************************)
(* The whole bot: the monitoring with few list_sessions answers, and the   *)
(* other command handlers.                                                 *)
(***************************************************************************)
CommandsNext ==
    \/ \E chat \in Chats : CmdStart(chat)
    \/ \E chat \in Chats, args \in CreateArgs : CmdCreate(chat, args)
    \/ CmdCreateToThread
    \/ CmdCreateAnswerFails
    \/ \E resp \in CreateResponses : ThreadCreateSession(resp)
    \/ CmdCreateAnswer
    \/ \E chat \in Chats : CmdList(chat)
    \/ CmdListToThread
    \/ CmdListAnswerFails
    \/ \E resp \in FewResponses : ThreadListSessionsForList(resp)
    \/ CmdListAnswer
    \/ \E chat \in Chats, args \in InfoArgs : CmdInfo(chat, args)
    \/ \E chat \in Chats, digits \in RegexIds : CmdInfoRegex(chat, digits)
    \/ SendSessionInfoToThread
    \/ SendSessionInfoAnswerFails
    \/ \E resp \in GetResponses : ThreadGetSession(resp)
    \/ SendSessionInfoAnswer
    \/ \E chat \in Chats, digits \in RegexIds : CmdActivitiesDynamic(chat, digits)
    \/ CmdActivitiesToThread
    \/ CmdActivitiesAnswerFails
    \/ \E resp \in ActivityResponses : ThreadListActivities(resp)
    \/ CmdActivitiesAnswer
    \/ \E h \in Handlers, chat \in Chats : CmdMonitor(h, chat)
    \/ \E h \in Handlers : CmdMonitorCreateTask(h)
    \/ \E h \in Handlers : CmdMonitorAnswerFails(h)
    \/ \E t \in Tasks : LoopStart(t)
    \/ \E t \in Tasks, resp \in FewResponses : ThreadListSessions(t, resp)
    \/ \E t \in Tasks : LoopEvaluate(t)
    \/ \E t \in Tasks, ok \in BOOLEAN : SendReturn(t, ok)
    \/ \E t \in Tasks : SleepReturn(t)
    \/ \E t \in Tasks, ok \in BOOLEAN : FinalSendReturn(t, ok)
    \/ Tick

CommandsSpec == Init /\ [][CommandsNext]_vars

(***************************************************************************)
(* The monitoring under fairness.  The event loop runs every task that can *)
(* run; requests.get has a timeout (10 s), so the fetch returns; the send  *)
(* returns or raises, and so does the answer of cmd_monitor;               *)
(* asyncio.sleep(60) returns once 60 seconds have passed; and time passes. *)
(***************************************************************************)
\* The list_sessions answers of this specification.
FairResponses ==
    FewResponses
    \cup { [kind |-> "ok",
            body |-> [sessions |-> << [id |-> "2", state |-> "AWAITING_PLAN_APPROVAL"],
                                      [id |-> UnhashableId,
                                       state |-> "AWAITING_PLAN_APPROVAL"] >>]] }

\* Time passes: up to MaxNow in any case, and beyond it for as long as a
\* looping run waits for its deadline or for the end of its sleep, so that
\* the bound of the clock holds no run in its loop.
ClockAdvance ==
    /\ \/ now + TickSeconds <= MaxNow
       \/ \E t \in Tasks : InLoop(t) /\ (now < end_time[t] \/ now < wake_at[t])
    /\ now' = now + TickSeconds
    /\ UNCHANGED << MONITORING_ACTIVE, MONITORING_TASK_REF, SESSION_STATES, pc,
                    end_time, wake_at, loopLocals, sending, finished_sent, hpc, last_answer >>
    /\ UNCHANGED cmdVars

FairNext ==
    \/ \E h \in Handlers, chat \in Chats : CmdMonitor(h, chat)
    \/ \E h \in Handlers : CmdMonitorCreateTask(h)
    \/ \E h \in Handlers : CmdMonitorAnswerFails(h)
    \/ \E t \in Tasks : LoopStart(t)
    \/ \E t \in Tasks, resp \in FairResponses : ThreadListSessions(t, resp)
    \/ \E t \in Tasks : LoopEvaluate(t)
    \/ \E t \in Tasks, ok \in BOOLEAN : SendReturn(t, ok)
    \/ \E t \in Tasks : SleepReturn(t)
    \/ \E t \in Tasks, ok \in BOOLEAN : FinalSendReturn(t, ok)
    \/ ClockAdvance

Fairness ==
    /\ WF_vars(ClockAdvance)
    /\ \A h \in Handlers :
         WF_vars(CmdMonitorCreateTask(h) \/ CmdMonitorAnswerFails(h))
    /\ \A t \in Tasks :
         /\ WF_vars(LoopStart(t))
         /\ WF_vars(\E resp \in FairResponses : ThreadListSessions(t, resp))
         /\ WF_vars(LoopEvaluate(t))
         /\ WF_vars(\E ok \in BOOLEAN : SendReturn(t, ok))
         /\ WF_vars(SleepReturn(t))
         /\ WF_vars(\E ok \in BOOLEAN : FinalSendReturn(t, ok))

FairSpec == Init /\ [][FairNext]_vars /\ Fairness

(***************************************************************************)
(* Properties.                                                             *)
(***************************************************************************)
Looping == { t \in Tasks : InLoop(t) }

\* The step is the evaluation segment of task t.
EvaluatedBy(t) == pc[t] = "fetched" /\ pc'[t] # "fetched"

\* The step is the loop-condition check of task t after a sleep.
CheckedAfterSleep(t) == pc[t] = "sleep" /\ pc'[t] # "sleep"

\* The list task t is about to evaluate.
Fetched(t) == DictGet(data[t], "sessions", <<>>)

\* The entry has a non-empty identifier (a string).
HasId(e) == "id" \in DOMAIN e /\ e.id # "" /\ e.id # UnhashableId
StatusOf(e) == IF "state" \in DOMAIN e THEN e.state ELSE "UNKNOWN"

\* Store and collected notifications just before / just after entry i of the
\* list is evaluated.
Before(t, i) == RunCheck(SESSION_STATES, SubSeq(Fetched(t), 1, i - 1))
After(t, i) == RunCheck(SESSION_STATES, SubSeq(Fetched(t), 1, i))

FirstSight(t, i) ==
    /\ ~Before(t, i).raised
    /\ HasId(Fetched(t)[i])
    /\ Fetched(t)[i].id \notin DOMAIN Before(t, i).states

SeenBefore(t, i) ==
    /\ ~Before(t, i).raised
    /\ HasId(Fetched(t)[i])
    /\ Fetched(t)[i].id \in DOMAIN Before(t, i).states

\* No identifier occurs twice in the list.
DistinctIds(p) ==
    \A i, j \in 1..Len(p) : (HasId(p[i]) /\ HasId(p[j]) /\ p[i].id = p[j].id) => i = j

\* How many of the collected notifications are about identifier x.
CountFor(changes, x) == Cardinality({ k \in 1..Len(changes) : changes[k].id = x })

\* Entry i adds exactly one notification, about itself, to what task t collects
\* in this step.
NotifiedOnce(t, i) ==
    LET b == Len(Before(t, i).changes)
        e == Fetched(t)[i]
    IN  /\ Len(After(t, i).changes) = b + 1
        /\ Len(changes_detected'[t]) >= b + 1
        /\ changes_detected'[t][b + 1].id = e.id
        /\ changes_detected'[t][b + 1].state = StatusOf(e)
        /\ DistinctIds(Fetched(t)) => CountFor(changes_detected'[t], e.id) = 1

\* Entry i adds nothing to what task t collects in this step.
NotNotified(t, i) ==
    /\ After(t, i).changes = Before(t, i).changes
    /\ SubSeq(changes_detected'[t], 1, Len(After(t, i).changes)) = After(t, i).changes
    /\ DistinctIds(Fetched(t)) => CountFor(changes_detected'[t], Fetched(t)[i].id) = 0

\* C1: at most one monitoring_loop task is inside its polling loop at any
\* time; a /monitor handled while the flag is true does not go on to create a
\* task, and a task is only ever created by a handler that found the flag false.
C1_SingleLoop ==
    /\ [](Cardinality(Looping) <= 1)
    /\ [][ /\ \A h \in Handlers :
                (MONITORING_ACTIVE /\ hpc[h] = "idle") => hpc'[h] = "idle"
           /\ \A t \in Tasks :
                (pc[t] = "unborn" /\ pc'[t] # "unborn")
                    => \E h \in Handlers : hpc[h] = "answering" /\ hpc'[h] = "idle"
         ]_vars

\* A second run is looping while the first is still sending its final notice,
\* and a /monitor has been answered "already active".
C1_Witness ==
    /\ pc[1] = "final_send"
    /\ InLoop(2)
    /\ last_answer = AlreadyActiveText

\* C2 as stated: a /monitor of the operator handled while the flag is true
\* clears the flag and the handle and answers "stopped"; it starts no second
\* loop.
C2_ToggleStops ==
    [][ \A h \in Handlers :
          (MONITORING_ACTIVE /\ CmdMonitor(h, ADMIN_CHAT_ID))
            => /\ MONITORING_ACTIVE' = FALSE
               /\ MONITORING_TASK_REF' = NoTask
               /\ last_answer' = StoppedText
      ]_vars

\* A /monitor was answered "already active" while the recorded task loops.
C2_Witness ==
    \E t \in Tasks :
        /\ InLoop(t)
        /\ MONITORING_TASK_REF = t
        /\ MONITORING_ACTIVE
        /\ last_answer = AlreadyActiveText

\* C3: an evaluated entry with a non-empty id that has no store entry when it
\* is evaluated and whose status is critical adds exactly one notification.
C3_FirstSightCritical ==
    [][ \A t \in Tasks : EvaluatedBy(t) =>
          \A i \in 1..Len(Fetched(t)) :
            (FirstSight(t, i) /\ StatusOf(Fetched(t)[i]) \in CriticalStates)
                => NotifiedOnce(t, i)
      ]_vars

\* The first iteration of the first run (no sleep can have ended at time 0)
\* met session 1 awaiting plan approval and collected its notification.
C3_Witness ==
    /\ now = 0
    /\ pc[1] = "send"
    /\ sessions[1] = << [id |-> "1", state |-> "AWAITING_PLAN_APPROVAL"] >>
    /\ Len(changes_detected[1]) = 1
    /\ changes_detected[1][1].id = "1"
    /\ sending[1].kind = "updates"

\* C4: an evaluated entry with a non-empty id whose store entry differs from
\* the reported status adds exactly one notification, critical or not.
C4_ChangedStatus ==
    [][ \A t \in Tasks : EvaluatedBy(t) =>
          \A i \in 1..Len(Fetched(t)) :
            (SeenBefore(t, i)
               /\ StatusOf(Fetched(t)[i]) # Before(t, i).states[Fetched(t)[i].id])
                => NotifiedOnce(t, i)
      ]_vars

\* A notification with a status outside the critical set was collected: only
\* a change of a stored status produces one.
C4_Witness ==
    \E t \in Tasks :
        /\ pc[t] = "send"
        /\ sessions[t] = << [id |-> "1", state |-> "RUNNING"] >>
        /\ Len(changes_detected[t]) = 1
        /\ changes_detected[t][1].state = "RUNNING"

\* C5: an evaluated entry that has no store entry when it is evaluated and
\* whose status is not critical adds no notification, and the store then maps
\* its id to that status.
C5_FirstSightQuiet ==
    [][ \A t \in Tasks : EvaluatedBy(t) =>
          \A i \in 1..Len(Fetched(t)) :
            (FirstSight(t, i) /\ StatusOf(Fetched(t)[i]) \notin CriticalStates)
                => /\ NotNotified(t, i)
                   /\ Fetched(t)[i].id \in DOMAIN After(t, i).states
                   /\ After(t, i).states[Fetched(t)[i].id] = StatusOf(Fetched(t)[i])
                   /\ DistinctIds(Fetched(t))
                        => /\ Fetched(t)[i].id \in DOMAIN SESSION_STATES'
                           /\ SESSION_STATES'[Fetched(t)[i].id] = StatusOf(Fetched(t)[i])
      ]_vars

\* The first iteration of the first run met session 1 RUNNING, collected
\* nothing and recorded it.
C5_Witness ==
    /\ now = 0
    /\ pc[1] = "sleep"
    /\ sessions[1] = << [id |-> "1", state |-> "RUNNING"] >>
    /\ changes_detected[1] = <<>>
    /\ SESSION_STATES = [k \in {"1"} |-> "RUNNING"]

\* C6: an evaluated entry whose store entry equals the reported status adds
\* no notification.
C6_Unchanged ==
    [][ \A t \in Tasks : EvaluatedBy(t) =>
          \A i \in 1..Len(Fetched(t)) :
            (SeenBefore(t, i)
               /\ StatusOf(Fetched(t)[i]) = Before(t, i).states[Fetched(t)[i].id])
                => NotNotified(t, i)
      ]_vars

\* A critical status was evaluated and nothing collected: it was stored
\* already.
C6_Witness ==
    \E t \in Tasks :
        /\ pc[t] = "sleep"
        /\ sessions[t] = << [id |-> "1", state |-> "AWAITING_PLAN_APPROVAL"] >>
        /\ changes_detected[t] = <<>>
        /\ SESSION_STATES["1"] = "AWAITING_PLAN_APPROVAL"

\* Every identifier of the list is reported with one status only.
SingleStatusPerId(p) ==
    \A i, j \in 1..Len(p) :
        (HasId(p[i]) /\ HasId(p[j]) /\ p[i].id = p[j].id) => StatusOf(p[i]) = StatusOf(p[j])

\* Every store over the identifiers and statuses of the inputs.
Stores ==
    UNION { [D -> {"RUNNING", "AWAITING_PLAN_APPROVAL", "AWAITING_USER_FEEDBACK", "UNKNOWN"}] :
            D \in SUBSET {"1", "2"} }

\* Evaluating list p again right after this step collects nothing and leaves
\* the store; and if the store before this step is what evaluating p leaves,
\* this step collects nothing, sends nothing and leaves the store.
SecondPassQuiet(t, p) ==
    /\ RunCheck(SESSION_STATES', p).changes = <<>>
    /\ RunCheck(SESSION_STATES', p).states = SESSION_STATES'
    /\ (\E s0 \in Stores : RunCheck(s0, p).states = SESSION_STATES)
         => /\ changes_detected'[t] = <<>>
            /\ SESSION_STATES' = SESSION_STATES
            /\ pc'[t] = "sleep"

\* C7 as stated: for any list and any store, a second evaluation of the same
\* list collects nothing and leaves the store as the first left it.
C7_IdempotentAnyPoll ==
    [][ \A t \in Tasks : EvaluatedBy(t) => SecondPassQuiet(t, Fetched(t)) ]_vars

\* C7 for lists that report every identifier with one status only: a second
\* evaluation of the same list collects nothing and leaves the store as the
\* first left it.
C7_IdempotentSingleStatus ==
    [][ \A t \in Tasks :
          (EvaluatedBy(t) /\ SingleStatusPerId(Fetched(t)))
              => SecondPassQuiet(t, Fetched(t)) ]_vars

\* A list with two critical sessions was evaluated against a store that holds
\* both statuses already, and nothing was collected.
C7_Witness ==
    \E t \in Tasks :
        /\ pc[t] = "sleep"
        /\ sessions[t] = << [id |-> "1", state |-> "AWAITING_USER_FEEDBACK"],
                            [id |-> "2", state |-> "AWAITING_PLAN_APPROVAL"] >>
        /\ changes_detected[t] = <<>>
        /\ SESSION_STATES = RunCheck(EmptyDict, sessions[t]).states

\* C8: an iteration whose fetch failed collects and sends nothing, leaves the
\* store, goes to its sleep, and after the sleep fetches again unless the
\* deadline has come or the flag is cleared; it leaves the loop for no other
\* reason.
C8_FetchFailure ==
    [][ \A t \in Tasks :
          /\ (EvaluatedBy(t) /\ fetch_failed[t])
                => /\ pc'[t] = "sleep"
                   /\ wake_at'[t] = now + SleepSeconds
                   /\ SESSION_STATES' = SESSION_STATES
                   /\ changes_detected'[t] = <<>>
                   /\ sending'[t] = NoMessage
          /\ (CheckedAfterSleep(t) /\ fetch_failed[t])
                => IF now < end_time[t] /\ MONITORING_ACTIVE
                   THEN pc'[t] = "fetch"
                   ELSE pc'[t] = "final_send"
      ]_vars

\* A fetch failed while the store held an entry; the task sleeps, before its
\* deadline, with nothing collected and nothing being sent.
C8_Witness ==
    \E t \in Tasks :
        /\ pc[t] = "sleep"
        /\ fetch_failed[t]
        /\ now < end_time[t]
        /\ DOMAIN SESSION_STATES # {}
        /\ changes_detected[t] = <<>>
        /\ sending[t] = NoMessage

\* C9: a loop check at or after the deadline with the flag still true leaves
\* the loop, clears the flag and sends the "finished" notice; a run sends it
\* once, when it leaves the loop, and never again.
C9_Expiry ==
    /\ [][ \A t \in Tasks :
             (CheckedAfterSleep(t) /\ now >= end_time[t] /\ MONITORING_ACTIVE)
                 => /\ pc'[t] = "final_send"
                    /\ MONITORING_ACTIVE' = FALSE
                    /\ sending'[t] = FinishedMessage
                    /\ finished_sent'[t] = 1 ]_vars
    /\ [](\A t \in Tasks :
             finished_sent[t] = IF pc[t] \in {"final_send", "done"} THEN 1 ELSE 0)

\* A run ended at its deadline and its one notice went out.
C9_Witness ==
    \E t \in Tasks :
        /\ pc[t] = "done"
        /\ now >= end_time[t]
        /\ finished_sent[t] = 1
        /\ ~MONITORING_ACTIVE

\* C10 as stated: a manual stop, the operator's /monitor handled while a run
\* loops before its deadline, clears the flag and is acknowledged as a stop;
\* the run whose loop check finds the flag cleared before its deadline leaves
\* its loop at that check, and no "finished" notice is sent for it.
C10_ManualStopSilent ==
    /\ [][ \A h \in Handlers, t \in Tasks :
             (CmdMonitor(h, ADMIN_CHAT_ID) /\ MONITORING_ACTIVE
                /\ InLoop(t) /\ now < end_time[t])
               => /\ MONITORING_ACTIVE' = FALSE
                  /\ last_answer' = StoppedText
                  /\ finished_sent'[t] = 0 ]_vars
    /\ [][ \A t \in Tasks :
             (CheckedAfterSleep(t) /\ ~MONITORING_ACTIVE /\ now < end_time[t])
               => /\ pc'[t] \notin {"fetch", "fetched", "send", "sleep"}
                  /\ sending'[t] # FinishedMessage
                  /\ finished_sent'[t] = 0 ]_vars

\* The only run so far got the operator's /monitor while it ran (the latest
\* answer, given while the flag was set, is "already active"); it went on to
\* its deadline and is sending its "finished" notice.
C10_Witness ==
    /\ pc[1] = "final_send"
    /\ \A t \in Tasks \ {1} : pc[t] = "unborn"
    /\ \A h \in Handlers : hpc[h] = "idle"
    /\ ~MONITORING_ACTIVE
    /\ last_answer = AlreadyActiveText
    /\ finished_sent[1] = 1

\* The step is the first evaluation of task t, a run started after another
\* run ended: t has not slept yet and another task has left its loop.
FirstEvaluationOfLaterRun(t) ==
    /\ EvaluatedBy(t)
    /\ wake_at[t] = 0
    /\ \E u \in Tasks \ {t} : pc[u] \in {"final_send", "done"}

\* C11: the store is not reset when a run starts or ends: only an evaluation
\* step of a looping task changes it, and such a step keeps every key it
\* found, so the first evaluation of a later run starts from the store the
\* earlier run left; in that evaluation an entry whose identifier the earlier
\* run recorded is treated as previously seen: it notifies exactly when its
\* status differs from the recorded one, critical or not.
C11_StorePersists ==
    [][ /\ (\A t \in Tasks : ~EvaluatedBy(t)) => SESSION_STATES' = SESSION_STATES
        /\ \A t \in Tasks :
              EvaluatedBy(t) => DOMAIN SESSION_STATES \subseteq DOMAIN SESSION_STATES'
        /\ \A t \in Tasks :
              FirstEvaluationOfLaterRun(t)
                => \A i \in 1..Len(Fetched(t)) :
                     ( /\ ~Before(t, i).raised
                       /\ HasId(Fetched(t)[i])
                       /\ Fetched(t)[i].id \in DOMAIN SESSION_STATES
                       /\ \A j \in 1..(i - 1) :
                             HasId(Fetched(t)[j]) => Fetched(t)[j].id # Fetched(t)[i].id )
                       => IF StatusOf(Fetched(t)[i]) # SESSION_STATES[Fetched(t)[i].id]
                          THEN NotifiedOnce(t, i)
                          ELSE NotNotified(t, i)
      ]_vars

\* The first run is over; the second run, in its first iteration, is sending
\* a notification of a non-critical status, which only a change from the
\* status the first run recorded can produce.
C11_Witness ==
    /\ pc[1] = "done"
    /\ pc[2] = "send"
    /\ wake_at[2] = 0
    /\ \E k \in 1..Len(changes_detected[2]) :
          changes_detected[2][k].state \notin CriticalStates

\* The step answers "Unauthorized." and does nothing else: no global of the
\* monitoring changes, no task is created or moved, and the handler hands
\* nothing to a worker thread.
TurnedAway ==
    /\ answers' = << Answer(UnauthorizedText, <<>>) >>
    /\ handler.pc = "idle"
    /\ handler' = handler
    /\ monitorVars' = monitorVars

\* C12: a /create, /list, /info, /info_<id>, /list_activities_<id> or /monitor
\* from a chat that is not the operator's is answered "Unauthorized." and
\* changes nothing: the flag, the task handle and the store stay, no task is
\* created, and no remote call is started.
C12_UnauthorizedRejected ==
    [][ /\ \A args \in CreateArgs : CmdCreate(OtherChat, args) => TurnedAway
        /\ CmdList(OtherChat) => TurnedAway
        /\ \A args \in InfoArgs : CmdInfo(OtherChat, args) => TurnedAway
        /\ \A digits \in RegexIds : CmdInfoRegex(OtherChat, digits) => TurnedAway
        /\ \A digits \in RegexIds : CmdActivitiesDynamic(OtherChat, digits) => TurnedAway
        /\ \A h \in Handlers :
             CmdMonitor(h, OtherChat)
               => /\ last_answer' = UnauthorizedText
                  /\ MONITORING_ACTIVE' = MONITORING_ACTIVE
                  /\ MONITORING_TASK_REF' = MONITORING_TASK_REF
                  /\ SESSION_STATES' = SESSION_STATES
                  /\ pc' = pc
                  /\ hpc' = hpc
                  /\ cmdVars' = cmdVars
      ]_vars

\* While a run is looping with a store that holds an entry, a command and a
\* /monitor of a foreign chat have both been turned away.
C12_Witness ==
    /\ answers = << Answer(UnauthorizedText, <<>>) >>
    /\ handler = IdleHandler
    /\ last_answer = UnauthorizedText
    /\ MONITORING_ACTIVE
    /\ MONITORING_TASK_REF # NoTask
    /\ InLoop(MONITORING_TASK_REF)
    /\ SESSION_STATES # EmptyDict

\* The list_sessions results of a request that succeeded and reported no
\* session.
EmptyResults ==
    { list_sessions(r) :
        r \in { q \in FewResponses :
                  q.kind = "ok" /\ DictGet(q.body, "sessions", <<>>) = <<>> } }

\* C13 as stated: what list_sessions hands to /list after a failed request
\* differs from what it hands over after a request that succeeded with no
\* session, and /list does not answer a failed fetch with "No sessions found."
C13_FailureDistinct ==
    /\ []((handler.pc = "listed" /\ handler.failed) => handler.data \notin EmptyResults)
    /\ [][ (handler.pc = "listed" /\ handler.failed /\ handler'.pc = "idle")
             => answers'[Len(answers')] # Answer(NoSessionsText, <<>>) ]_vars

\* An identifier without its "sessions/" prefix, if it has one.
StripPrefix(s) == IF s # <<>> /\ Head(s) = "sessions/" THEN Tail(s) ELSE s

\* Where an invocation of _send_session_info can be: at its first answer
\* (line 134), at the lookup (line 136), at its second answer (139 or 157).
InfoStages == {"info_answer", "get_session", "got_session"}

\* The step leaves the invocation with two replies made: "Fetching info" for
\* the identifier it was called with, then either the details, showing the
\* returned id without its "sessions/" prefix, when the result has an id, or
\* "not found or error" when the result is empty or has no id.
TwoRepliesMade ==
    /\ handler'.pc = "idle"
    /\ Len(answers') = 2
    /\ answers'[1] = Answer(FetchingInfoText, << handler.session_id >>)
    /\ IF "id" \in DOMAIN handler.data
       THEN /\ answers'[2].text = DetailsText
            /\ answers'[2].args[1] = StripPrefix(handler.data.id)
            /\ answers'[2].args[5] = StripPrefix(handler.data.id)
            /\ "sessions/" \notin Pieces(answers'[2].args[1])
       ELSE answers'[2] = Answer(NotFoundText, << handler.session_id >>)

\* C14 as stated: _send_session_info always answers exactly twice: every
\* invocation that ends has sent "Fetching info" and then the details or
\* "not found or error".
C14_TwoReplies ==
    [][ (handler.pc \in InfoStages /\ handler'.pc \notin InfoStages)
          => TwoRepliesMade ]_vars

\* C14, amended: _send_session_info first answers "Fetching info" for the
\* identifier it was called with.  When that answer returns, the lookup is
\* made and exactly one more answer follows, the details (id without its
\* "sessions/" prefix) or "not found or error"; when that answer raises, the
\* invocation ends there, with one answer call, no lookup and no second answer.
C14_TwoRepliesIfFirstReturns ==
    /\ []( handler.pc \in InfoStages
             => answers = << Answer(FetchingInfoText, << handler.session_id >>) >> )
    /\ [][ (handler.pc = "info_answer" /\ handler' # handler)
             => /\ answers' = answers
                /\ \/ handler' = [handler EXCEPT !.pc = "get_session"]
                   \/ handler' = IdleHandler ]_vars
    /\ [][ (handler.pc = "get_session" /\ handler' # handler)
             => /\ answers' = answers
                /\ handler'.pc = "got_session"
                /\ handler'.session_id = handler.session_id ]_vars
    /\ [][ (handler.pc = "got_session" /\ handler' # handler)
             => TwoRepliesMade ]_vars

\* /info_42 was answered "Fetching info" and then with the details of the
\* session the API names "sessions/42", shown as "42".
C14_Witness ==
    /\ handler = IdleHandler
    /\ answers = << Answer(FetchingInfoText, << Str("42") >>),
                    Answer(DetailsText,
                           << Str("42"), Str("T"), Str("RUNNING"),
                              Str("https://example.com"), Str("42") >>) >>

\* C15 as stated: in every state the flag is true exactly when a task handle
\* is recorded and the recorded task has not completed.
C15_FlagIffLiveTask ==
    MONITORING_ACTIVE
        <=> (MONITORING_TASK_REF # NoTask /\ pc[MONITORING_TASK_REF] # "done")

\* C16 as stated: a cycle sends an update message exactly when it collected a
\* notification, it sends one message only, and the message holds everything
\* the cycle collected, in the order of evaluation.
C16_BatchIffCollected ==
    /\ [][ \A t \in Tasks :
             EvaluatedBy(t)
               => /\ changes_detected'[t] = RunCheck(SESSION_STATES, Fetched(t)).changes
                  /\ (pc'[t] = "send") <=> (changes_detected'[t] # <<>>)
                  /\ sending'[t] = IF changes_detected'[t] # <<>>
                                   THEN UpdatesMessage(changes_detected'[t])
                                   ELSE NoMessage ]_vars
    /\ [][ \A t \in Tasks :
             (pc[t] = "send" /\ pc'[t] # "send")
               => pc'[t] = "sleep" /\ sending'[t] = NoMessage ]_vars

\* A cycle collected a notification, met an entry whose id cannot be a key,
\* and went to its sleep without sending anything.
C16_Witness ==
    \E t \in Tasks :
        /\ pc[t] = "sleep"
        /\ changes_detected[t] # <<>>
        /\ sending[t] = NoMessage
        /\ \E i \in 1..Len(sessions[t]) :
             DictGet(sessions[t][i], "id", None) = UnhashableId

\* The evaluation of what task t fetched raises.
EvaluationRaises(t) == RunCheck(SESSION_STATES, Fetched(t)).raised

\* C17: an exception inside an iteration does not end the loop.  A failed
\* request leaves the task in its iteration; an evaluation that raises and a
\* send that raises both lead to the 60-second sleep; the sleep leads to the
\* loop check; and a task leaves its loop only at a loop check that finds the
\* deadline reached or the flag cleared.
C17_ExceptionsCaught ==
    [][ \A t \in Tasks :
          /\ ThreadListSessions(t, [kind |-> "error"]) => pc'[t] = "fetched"
          /\ (EvaluatedBy(t) /\ EvaluationRaises(t))
               => /\ pc'[t] = "sleep"
                  /\ wake_at'[t] = now + SleepSeconds
                  /\ sending'[t] = NoMessage
          /\ SendReturn(t, FALSE)
               => /\ pc'[t] = "sleep"
                  /\ wake_at'[t] = now + SleepSeconds
          /\ CheckedAfterSleep(t)
               => /\ now >= wake_at[t]
                  /\ pc'[t] = IF now < end_time[t] /\ MONITORING_ACTIVE
                              THEN "fetch" ELSE "final_send"
          /\ (InLoop(t) /\ ~InLoop(t)')
               => /\ pc[t] = "sleep"
                  /\ now >= end_time[t] \/ ~MONITORING_ACTIVE
      ]_vars

\* An evaluation raised on the first entry of its list; the task is in its
\* sleep, due to wake in 60 seconds, its deadline not reached, the flag set.
C17_Witness ==
    \E t \in Tasks :
        /\ pc[t] = "sleep"
        /\ sessions[t] # <<>>
        /\ DictGet(sessions[t][1], "id", None) = UnhashableId
        /\ wake_at[t] = now + SleepSeconds
        /\ now < end_time[t]
        /\ MONITORING_ACTIVE

\* The entries of what task t fetched that its for loop evaluates: those with
\* a non-empty identifier that are reached before any exception.
EvaluatedEntries(t) ==
    { i \in 1..Len(Fetched(t)) : ~Before(t, i).raised /\ HasId(Fetched(t)[i]) }

\* The evaluated entries about identifier x.
EntriesFor(t, x) == { i \in EvaluatedEntries(t) : Fetched(t)[i].id = x }

\* C18: after an evaluation every identifier in the store that the evaluated
\* list reported holds the status of the last evaluated entry reporting it,
\* notified or not; an identifier the list did not report keeps its entry as
\* it was and nothing is collected about it; no other step writes the store.
C18_LastSeen ==
    [][ /\ \A t \in Tasks :
             EvaluatedBy(t)
               => \A x \in DOMAIN SESSION_STATES' :
                    IF EntriesFor(t, x) # {}
                    THEN \E i \in EntriesFor(t, x) :
                           /\ \A j \in EntriesFor(t, x) : j <= i
                           /\ SESSION_STATES'[x] = StatusOf(Fetched(t)[i])
                    ELSE /\ x \in DOMAIN SESSION_STATES
                         /\ SESSION_STATES'[x] = SESSION_STATES[x]
                         /\ CountFor(changes_detected'[t], x) = 0
        /\ (\A t \in Tasks : ~EvaluatedBy(t)) => SESSION_STATES' = SESSION_STATES
      ]_vars

\* The store holds sessions 1 and 2; the list just evaluated reported only
\* session 2, unchanged: nothing was collected and session 1 kept its entry.
C18_Witness ==
    \E t \in Tasks :
        /\ pc[t] = "sleep"
        /\ sessions[t] = << [id |-> "2", state |-> "AWAITING_PLAN_APPROVAL"] >>
        /\ changes_detected[t] = <<>>
        /\ DOMAIN SESSION_STATES = {"1", "2"}
        /\ SESSION_STATES["1"] = "AWAITING_USER_FEEDBACK"

\* C19: the store starts empty and its key set only grows: an evaluation adds
\* exactly the non-empty identifiers of the entries it evaluated and removes
\* none, no other step changes the key set, and an entry whose identifier is
\* missing or empty adds no key and no notification.
C19_KeysGrow ==
    /\ SESSION_STATES = EmptyDict
    /\ [][ /\ \A t \in Tasks :
                EvaluatedBy(t)
                  => /\ DOMAIN SESSION_STATES'
                          = DOMAIN SESSION_STATES
                              \cup { Fetched(t)[i].id : i \in EvaluatedEntries(t) }
                     /\ \A i \in 1..Len(Fetched(t)) :
                          DictGet(Fetched(t)[i], "id", "") = ""
                            => /\ After(t, i).states = Before(t, i).states
                               /\ After(t, i).changes = Before(t, i).changes
                     /\ \A k \in 1..Len(changes_detected'[t]) :
                          /\ changes_detected'[t][k].id # ""
                          /\ changes_detected'[t][k].id \in DOMAIN SESSION_STATES'
           /\ (\A t \in Tasks : ~EvaluatedBy(t))
                => DOMAIN SESSION_STATES' = DOMAIN SESSION_STATES
         ]_vars

\* A list of one entry without "id" and one with an empty id, both in a
\* critical state, was evaluated: the store is still empty and nothing was
\* collected.
C19_Witness ==
    \E t \in Tasks :
        /\ pc[t] = "sleep"
        /\ sessions[t] = << [state |-> "AWAITING_PLAN_APPROVAL"],
                            [id |-> "", state |-> "AWAITING_USER_FEEDBACK"] >>
        /\ changes_detected[t] = <<>>
        /\ SESSION_STATES = EmptyDict

\* C20: the loop condition is checked at the start of a run and after every
\* sleep, an iteration begins only at a check that finds the deadline ahead
\* and the flag set, and under fairness every task that was created leaves its
\* loop, the flag being false when it has.
C20_RunTerminates ==
    /\ [][ \A t \in Tasks :
             /\ (pc[t] # "fetch" /\ pc'[t] = "fetch")
                  => /\ pc[t] \in {"created", "sleep"}
                     /\ now < end_time'[t]
                     /\ MONITORING_ACTIVE
             /\ (pc[t] \in {"created", "sleep"} /\ pc'[t] # pc[t]
                   /\ ~(now < end_time'[t] /\ MONITORING_ACTIVE))
                  => pc'[t] = "final_send" /\ ~MONITORING_ACTIVE' ]_vars
    /\ \A t \in Tasks :
         (pc[t] = "created") ~> (pc[t] = "final_send" /\ ~MONITORING_ACTIVE)

\* The second run, started when the first was over, has polled, has reached
\* its deadline and has left its loop.
C20_Witness ==
    /\ pc[1] = "done"
    /\ pc[2] = "final_send"
    /\ end_time[2] >= end_time[1] + HourSeconds
    /\ now >= end_time[2]
    /\ ~MONITORING_ACTIVE
    /\ SESSION_STATES # EmptyDict

\* C21 as stated: whenever the flag is true it becomes false again, a task
\* being there or coming to clear it.
C21_NoStuckActive == MONITORING_ACTIVE ~> ~MONITORING_ACTIVE

\* The flag is true, no handler is between its lines 295 and 301, and no task
\* exists that has not already left its loop: nothing is left to clear it.
C21_Witness ==
    /\ MONITORING_ACTIVE
    /\ \A h \in Handlers : hpc[h] = "idle"
    /\ \A t \in Tasks : pc[t] \in {"unborn", "final_send", "done"}

\* The last evaluated entry about identifier x in what task t fetched.
LastEntryFor(t, x) == CHOOSE i \in EntriesFor(t, x) : \A j \in EntriesFor(t, x) : j <= i

\* C22: an observation goes into one message at most.  An evaluation collects
\* at most one notification per entry it evaluates; an update message arises
\* only in an evaluation step and holds what that step collected, nothing of
\* an earlier cycle; whatever was collected is already recorded when the step
\* ends, be the batch sent, its cycle aborted by an exception or its delivery
\* failing later, so that evaluating the same entry again collects nothing;
\* and a send that fails is not repeated and takes nothing back from the store.
C22_AtMostOnce ==
    [][ \A t \in Tasks :
          /\ EvaluatedBy(t)
               => /\ changes_detected'[t] = RunCheck(SESSION_STATES, Fetched(t)).changes
                  /\ Len(changes_detected'[t]) <= Cardinality(EvaluatedEntries(t))
                  /\ \A i \in 1..Len(Fetched(t)) :
                       Len(After(t, i).changes) - Len(Before(t, i).changes) \in {0, 1}
                  /\ sending'[t] \in {NoMessage, UpdatesMessage(changes_detected'[t])}
                  /\ \A k \in 1..Len(changes_detected'[t]) :
                       LET x == changes_detected'[t][k].id
                       IN  /\ x \in DOMAIN SESSION_STATES'
                           /\ EntriesFor(t, x) # {}
                           /\ RunCheck(SESSION_STATES',
                                       << Fetched(t)[LastEntryFor(t, x)] >>).changes = <<>>
          /\ ~EvaluatedBy(t)
               => (sending'[t].kind = "updates" => sending'[t] = sending[t])
          /\ (pc[t] = "send" /\ pc'[t] # "send")
               => /\ pc'[t] = "sleep"
                  /\ sending'[t] = NoMessage
                  /\ SESSION_STATES' = SESSION_STATES
          /\ CheckedAfterSleep(t) => sending'[t].kind # "updates"
      ]_vars

\* A cycle collected the notification of session 1, was aborted by an
\* exception before sending it, and the store holds the status it collected:
\* the same entry, evaluated again, collects nothing.
C22_Witness ==
    \E t \in Tasks :
        /\ pc[t] = "sleep"
        /\ sessions[t] = << [id |-> "1", state |-> "AWAITING_PLAN_APPROVAL"],
                            [id |-> UnhashableId, state |-> "AWAITING_PLAN_APPROVAL"] >>
        /\ Len(changes_detected[t]) = 1
        /\ sending[t] = NoMessage
        /\ "1" \in DOMAIN SESSION_STATES
        /\ SESSION_STATES["1"] = changes_detected[t][1].state
        /\ RunCheck(SESSION_STATES, << sessions[t][1] >>).changes = <<>>

====
